---- MODULE Spec2Model ----
(***************************************************************************)
(* LowCodePluginManager (packages/designer/src/plugin/plugin-manager.ts):  *)
(* the plugin registry, its ordered asynchronous init pass, override,      *)
(* delete, destroy and dispose.                                            *)
(*                                                                         *)
(* Every async method is a call that runs synchronously up to its first    *)
(* await, then is suspended; a suspended call is resumed by a later step,   *)
(* so calls interleave exactly at the awaits of the source.  A hook is      *)
(* invoked synchronously by the call that reaches it and returns (or        *)
(* throws) in a later step.                                                 *)
(*                                                                         *)
(* LowCodePlugin (the plugin unit), sequencify and invariant are imported   *)
(* by the manager but their files are not part of the sources at hand: they *)
(* are modelled from the specification (sections 4.1, 4.2, 4.4).            *)
(***************************************************************************)
EXTENDS Integers, Sequences, FiniteSets, TLC

\* ---------------------------------------------------------------- bounds
MaxUnits == 2        \* plugin units ever constructed
MaxOps == 3          \* manager calls ever made
MaxInFlight == 2     \* calls suspended at an await at the same time
MaxOpsDeep == 4      \* manager calls ever made, in the deeper runs (SpecDeep)
MaxOpsPass == 2      \* manager calls made after the registrations (SpecRegistered)
MaxNewUnits == 1     \* units constructed after the registrations (SpecRegistered)
MaxOpsEngine == 5    \* manager calls ever made, built-ins included (SpecEngine)
MaxEngineInits == 3  \* calls of engine-core's init() ever made

\* componentMetaParser, setterRegistry and defaultPanelRegistry: the
\* pluginName of the built-in plugins, in the order registerPlugins
\* registers them
BuiltinNames ==
    <<"___component_meta_parser___", "___setter_registry___",
      "___default_panel___">>

CallNames == {"a", "b"}  \* plugin names the client's calls name
NoName == "none"     \* pluginName / config.name left undefined
NoUnit == 0          \* Map.get(name) === undefined

VARIABLES
    units,       \* every LowCodePlugin constructed so far, by unit id
    plugins,     \* this.plugins: unit ids in push order
    pluginsMap,  \* this.pluginsMap: name -> unit id, NoUnit when absent
    calls,       \* the manager calls suspended at an await, by slot
    last,        \* what the latest step did: the call, its outcome and, when
                 \* an init pass ends, the sequence it went through, when
                 \* a destroy or dispose ends, the units that were in
                 \* this.plugins when it was called (visited), for a
                 \* delete, the unit get(name) returned when it was
                 \* called (old), for a register that constructed its
                 \* unit, registerOptions.autoInit
    nops,        \* number of manager calls made
    budget,      \* what the run may reach: manager calls made (ops) and
                 \* plugin units constructed (units)
    engine,      \* engine-core.ts: engineInited, the position of
                 \* registerPlugins and of the init() call under way
    initLog,     \* unit ids in the order their init hooks were invoked
    hist         \* shape of the call history so far

vars ==
    <<units, plugins, pluginsMap, calls, last, nops, budget, engine, initLog,
      hist>>

Slots == 1..MaxInFlight

\* the plugin names in use: the names the client's calls name and the
\* names of the plugins registered from the start
Names == DOMAIN pluginsMap

\* ------------------------------------------------------------ plugin unit
\* new LowCodePlugin(pluginName, this, config, meta); overrode is the unit
\* the registration replaced (bookkeeping only).
NewPlugin(name, dep, orig) ==
    [name |-> name, dep |-> dep, initialized |-> FALSE, disabled |-> FALSE,
     destroyed |-> FALSE, initEnds |-> 0, destroyCalls |-> 0, overrode |-> orig]

UnitInitRuns_IgnoresDestroyed(u) == ~u.initialized

\* unit.init(): a no-op once initialized, and on a destroyed unit.
UnitInitRuns(u) == ~u.initialized /\ ~u.destroyed

\* the init hook returned (ok) or threw (~ok).
EndInit(us, id, ok) ==
    [us EXCEPT ![id].initEnds = @ + 1,
               ![id].initialized = @ \/ (ok /\ ~us[id].destroyed)]

UnitDestroyRuns_Always(u) == TRUE

\* unit.destroy(): a no-op on repeat.
UnitDestroyRuns(u) == ~u.destroyed

\* unit.destroy() invoking the destroy hook.
StartDestroy(us, id) ==
    [us EXCEPT ![id].destroyed = TRUE, ![id].destroyCalls = @ + 1]

\* unit.setDisabled(flag)
UnitSetDisabled(us, id, flag) == [us EXCEPT ![id].disabled = flag]

\* unit.toProxy(): the capability proxy of unit id
UnitToProxy(id) == [kind |-> "pluginProxy", unit |-> id]

\* ------------------------------------------------------------- sequencify
\* Depth-first from each requested name, dependencies first.  A name that is
\* absent, or that is already being visited (a cycle), is reported missing;
\* a unit with a missing dependency is left out of the sequence.
RECURSIVE seqVisit(_, _, _, _)
seqVisit(pobj, names, st, nest) ==
    IF names = <<>> THEN st
    ELSE LET name == Head(names)
             seen == \E i \in 1..Len(st.sequence) : st.sequence[i] = name
             st1 ==
               IF seen THEN st
               ELSE IF pobj[name] = NoUnit \/ name \in nest
                    THEN [st EXCEPT !.missingTasks = Append(@, name)]
                    ELSE LET sub == seqVisit(pobj, units[pobj[name]].dep, st,
                                             nest \cup {name})
                         IN IF Len(sub.missingTasks) > Len(st.missingTasks)
                            THEN sub
                            ELSE [sub EXCEPT !.sequence = Append(@, name)]
         IN seqVisit(pobj, Tail(names), st1, nest)

sequencify(pobj, names) ==
    seqVisit(pobj, names, [sequence |-> <<>>, missingTasks |-> <<>>], {})

\* ------------------------------------------------------ manager: helpers
\* pluginName = pluginName || config.name
PluginNameOf(cr) ==
    IF cr.pluginName # NoName THEN cr.pluginName ELSE cr.configName

\* invariant(pluginName, ...) throws when no name can be derived
NameMissing(name) == name = NoName

\* registerOptions?.override === true
allowOverride(ro) == ro.override = TRUE

DuplicateThrows_Never(exists, ro) == FALSE

\* if (this.pluginsMap.has(pluginName)) { if (!allowOverride) throw ... }
DuplicateThrows(exists, ro) == exists /\ ~allowOverride(ro)

OverrideDestroy_Skipped(us, orig) == us

\* originalPlugin?.destroy(), not awaited: the hook is invoked, its end is
\* never observed by the manager.
OverrideDestroy(us, orig) ==
    IF UnitDestroyRuns(us[orig]) THEN StartDestroy(us, orig) ELSE us

\* this.pluginsMap.delete(name) / .set(name, plugin)
MapDelete(map, name) == [map EXCEPT ![name] = NoUnit]
MapSet(map, name, id) == [map EXCEPT ![name] = id]

\* engineConfig.get('ENGINE_VERSION'): the version the host was built as,
\* here 2.1.0-beta
ENGINE_VERSION == [major |-> 2, minor |-> 1, patch |-> 0, pre |-> TRUE]

\* meta.engines.lowcodeEngine: absent (the empty sequence), or one caret
\* range ^major.minor.patch
NoRange == <<>>
Caret(major, minor, patch) ==
    <<[major |-> major, minor |-> minor, patch |-> patch]>>
Ranges == {Caret(2, 0, 0), Caret(2, 1, 0), Caret(3, 0, 0)}

\* semver precedence: major, minor, patch in turn, and a prerelease of a
\* version comes before that version
SemverLess(v, w) ==
    \/ v.major < w.major
    \/ v.major = w.major /\ v.minor < w.minor
    \/ v.major = w.major /\ v.minor = w.minor /\ v.patch < w.patch
    \/ v.major = w.major /\ v.minor = w.minor /\ v.patch = w.patch
         /\ v.pre /\ ~w.pre

\* semverSatisfies(version, '^M.m.p', { includePrerelease: true }):
\* >= M.m.p and < (M+1).0.0-0, prereleases taking part in the comparison
semverSatisfies(version, range) ==
    /\ ~SemverLess(version, [major |-> range.major, minor |-> range.minor,
                             patch |-> range.patch, pre |-> FALSE])
    /\ SemverLess(version, [major |-> range.major + 1, minor |-> 0,
                            patch |-> 0, pre |-> TRUE])

isEngineVersionMatched(versionExp) ==
    semverSatisfies(ENGINE_VERSION, versionExp[1])

VersionThrows_Never(engines) == FALSE

\* engineVersionExp && !this.isEngineVersionMatched(engineVersionExp)
VersionThrows(engines) ==
    engines # NoRange /\ ~isEngineVersionMatched(engines)

AutoInit_Ignored(ro) == FALSE

\* if (registerOptions?.autoInit)
AutoInit(ro) == ro.autoInit = TRUE

PluginNames_Reversed(plugs) ==
    [i \in 1..Len(plugs) |-> units[plugs[Len(plugs) + 1 - i]].name]

\* pluginNames.push(plugin.name), in this.plugins order
PluginNames(plugs) == [i \in 1..Len(plugs) |-> units[plugs[i]].name]

\* pluginObj[plugin.name] = plugin: the last unit of each name wins
PluginObj(plugs) ==
    [n \in Names |->
       LET S == {i \in 1..Len(plugs) : units[plugs[i]].name = n}
       IN IF S = {} THEN NoUnit
          ELSE plugs[CHOOSE i \in S : \A j \in S : j <= i]]

LoadSequence_RegistrationOrder(plugs) ==
    [sequence |-> PluginNames(plugs), missingTasks |-> <<>>]

\* const { missingTasks, sequence } = sequencify(pluginObj, pluginNames)
LoadSequence(plugs) == sequencify(PluginObj(plugs), PluginNames(plugs))

InitAborts_Never(missingTasks) == FALSE

\* invariant(!missingTasks.length, 'plugin dependency missing', ...)
InitAborts(missingTasks) == Len(missingTasks) # 0

PassContinues_Rethrow(ok) == ok

\* try { await ...init() } catch (e) { logger.error(...) }: the loop goes on
PassContinues(ok) == TRUE

\* this.plugins.findIndex(p => p.name === pluginName), 1-based, 0 for -1
FindIndex(plugs, name) ==
    LET S == {i \in 1..Len(plugs) : units[plugs[i]].name = name}
    IN IF S = {} THEN 0 ELSE CHOOSE i \in S : \A j \in S : i <= j

DeleteRemoves_Always(ok) == TRUE

\* lines 153-154 of delete run only when await plugin.destroy() did not throw
DeleteRemoves(ok) == ok

\* this.plugins.splice(idx, 1)
Splice(plugs, idx) ==
    [i \in 1..(Len(plugs) - (IF idx <= Len(plugs) THEN 1 ELSE 0)) |->
       IF i < idx THEN plugs[i] ELSE plugs[i + 1]]

\* what a property read on the manager proxy can give: undefined, a unit's
\* capability proxy, or the manager's own member (Reflect.get)
Undefined == [kind |-> "undefined", unit |-> NoUnit]
ManagerMember == [kind |-> "member", unit |-> NoUnit]

ProxyGet_IgnoresDisabled(map, us, prop) ==
    IF map[prop] # NoUnit THEN UnitToProxy(map[prop]) ELSE ManagerMember

\* toProxy(): the get trap, for a property named prop
ProxyGet(map, us, prop) ==
    IF map[prop] # NoUnit
    THEN IF us[map[prop]].disabled THEN Undefined ELSE UnitToProxy(map[prop])
    ELSE ManagerMember

\* ------------------------------------------------------- calls and steps
\* engine-core.ts before it has run: engineInited (inited), the number of
\* built-ins registerPlugins has registered (iife), where the init() call
\* that set engineInited stands (phase), and counts of what init() did
EngineIdle ==
    [inited |-> FALSE, iife |-> 0, phase |-> "none", returned |-> 0,
     passes |-> 0, renders |-> 0, seq |-> <<>>]

Idle ==
    [op |-> "idle", pc |-> "idle", name |-> NoName, unit |-> NoUnit,
     idx |-> 0, seq |-> <<>>, visited |-> <<>>,
     pobj |-> <<>>, live |-> TRUE, arr |-> <<>>,
     atCall |-> <<>>, got |-> NoUnit, ok |-> TRUE]

Blank ==
    [act |-> "none", op |-> "none", outcome |-> "none", error |-> "none",
     name |-> NoName, unit |-> NoUnit, old |-> NoUnit, overriding |-> FALSE,
     ret |-> FALSE, seq |-> <<>>, visited |-> <<>>, unmatched |-> FALSE,
     flag |-> FALSE, autoInit |-> FALSE]

IdleSlots == {c \in Slots : calls[c].pc = "idle"}
FreeSlot == CHOOSE c \in IdleSlots : \A d \in IdleSlots : c <= d
CanCall == nops < budget.ops /\ IdleSlots # {}

\* pluginConfigCreator: its declared pluginName, the name of the config it
\* returns (the legacy way), the dependencies and meta.engines.lowcodeEngine.
\* The creators are those that declare a name and maybe a dependency on the
\* other name, those that declare the name a and an engine range, and those
\* that declare no name.
Creators ==
    {cr \in [pluginName : CallNames, configName : {NoName},
             dep : {<<>>} \cup {<<n>> : n \in CallNames},
             engines : {NoRange}] :
       cr.dep # <<cr.pluginName>>}
    \cup [pluginName : {"a"}, configName : {NoName},
          dep : {<<>>}, engines : Ranges]
    \cup [pluginName : {NoName}, configName : CallNames \cup {NoName},
          dep : {<<>>}, engines : {NoRange}]

RegisterOptions == [override : BOOLEAN, autoInit : BOOLEAN]

Init ==
    /\ units = <<>>
    /\ plugins = <<>>
    /\ pluginsMap = [n \in CallNames |-> NoUnit]
    /\ calls = [c \in Slots |-> Idle]
    /\ last = Blank
    /\ nops = 0
    /\ budget = [ops |-> MaxOps, units |-> MaxUnits]
    /\ engine = EngineIdle
    /\ initLog = <<>>
    /\ hist = "regs"

\* the same manager, allowed MaxOpsDeep calls
InitDeep ==
    /\ units = <<>>
    /\ plugins = <<>>
    /\ pluginsMap = [n \in CallNames |-> NoUnit]
    /\ calls = [c \in Slots |-> Idle]
    /\ last = Blank
    /\ nops = 0
    /\ budget = [ops |-> MaxOpsDeep, units |-> MaxUnits]
    /\ engine = EngineIdle
    /\ initLog = <<>>
    /\ hist = "regs"

\* a manager after register(a), register(b), register(c) with default
\* options and no dependencies, allowed MaxOpsPass further calls; no later
\* call names c
InitRegistered ==
    /\ units = <<NewPlugin("a", <<>>, NoUnit), NewPlugin("b", <<>>, NoUnit),
                 NewPlugin("c", <<>>, NoUnit)>>
    /\ plugins = <<1, 2, 3>>
    /\ pluginsMap = [n \in CallNames \cup {"c"} |->
                       IF n = "a" THEN 1 ELSE IF n = "b" THEN 2 ELSE 3]
    /\ calls = [c \in Slots |-> Idle]
    /\ last = [Blank EXCEPT !.act = "call", !.op = "register", !.name = "c",
                            !.unit = 3, !.outcome = "resolved"]
    /\ nops = 3
    /\ budget = [ops |-> 3 + MaxOpsPass, units |-> 3 + MaxNewUnits]
    /\ engine = EngineIdle
    /\ initLog = <<>>
    /\ hist = "regs"

\* ---------------------------------------------------------------- register
register(cr, ro) ==
    /\ CanCall
    /\ nops' = nops + 1
    /\ UNCHANGED budget
    /\ LET name == PluginNameOf(cr)
           orig == IF name = NoName THEN NoUnit ELSE pluginsMap[name]
           exists == orig # NoUnit
           new == Len(units) + 1
           info == [Blank EXCEPT !.act = "call", !.op = "register",
                                 !.name = name, !.old = orig,
                                 !.overriding = exists /\ allowOverride(ro),
                                 !.unmatched =
                                    /\ cr.engines # NoRange
                                    /\ ~isEngineVersionMatched(cr.engines)]
           plain == /\ hist = "regs" /\ ~exists /\ ~ro.override
                    /\ ~ro.autoInit /\ cr.dep = <<>>
                    /\ ~VersionThrows(cr.engines)
       IN
       IF NameMissing(name) THEN
          /\ last' = [info EXCEPT !.outcome = "rejected", !.error = "config"]
          /\ hist' = "other"
          /\ UNCHANGED <<units, plugins, pluginsMap, calls, initLog>>
       ELSE IF DuplicateThrows(exists, ro) THEN
          /\ last' = [info EXCEPT !.outcome = "rejected", !.error = "duplicate"]
          /\ hist' = "other"
          /\ UNCHANGED <<units, plugins, pluginsMap, calls, initLog>>
       ELSE
          LET us1 == IF exists THEN OverrideDestroy(units, orig) ELSE units
              map1 == IF exists THEN MapDelete(pluginsMap, name) ELSE pluginsMap
          IN
          IF VersionThrows(cr.engines) THEN
             /\ units' = us1
             /\ pluginsMap' = map1
             /\ last' = [info EXCEPT !.outcome = "rejected", !.error = "version"]
             /\ hist' = "other"
             /\ UNCHANGED <<plugins, calls, initLog>>
          ELSE
             /\ Len(units) < budget.units
             /\ units' = Append(us1, NewPlugin(name, cr.dep, orig))
             /\ hist' = IF plain THEN "regs" ELSE "other"
             /\ IF AutoInit(ro) THEN
                   \* await plugin.init(): the fresh unit's hook is invoked
                   /\ pluginsMap' = map1
                   /\ initLog' = Append(initLog, new)
                   /\ calls' = [calls EXCEPT ![FreeSlot] =
                                  [Idle EXCEPT !.op = "register", !.pc = "hook",
                                               !.name = name, !.unit = new]]
                   /\ last' = [info EXCEPT !.outcome = "pending", !.unit = new,
                                           !.autoInit = ro.autoInit]
                   /\ UNCHANGED plugins
                ELSE
                   /\ plugins' = Append(plugins, new)
                   /\ pluginsMap' = MapSet(map1, name, new)
                   /\ last' = [info EXCEPT !.outcome = "resolved", !.unit = new,
                                           !.autoInit = ro.autoInit]
                   /\ UNCHANGED <<calls, initLog>>

\* register resumed after await plugin.init()
resumeRegister(c) ==
    /\ calls[c].op = "register" /\ calls[c].pc = "resume"
    /\ LET name == calls[c].name
           new == calls[c].unit
           info == [Blank EXCEPT !.act = "resume", !.op = "register",
                                 !.name = name, !.unit = new,
                                 !.old = units[new].overrode,
                                 !.overriding = units[new].overrode # NoUnit,
                                 !.autoInit = TRUE]
       IN IF calls[c].ok THEN
             /\ plugins' = Append(plugins, new)
             /\ pluginsMap' = MapSet(pluginsMap, name, new)
             /\ last' = [info EXCEPT !.outcome = "resolved"]
          ELSE
             /\ last' = [info EXCEPT !.outcome = "rejected", !.error = "hook"]
             /\ UNCHANGED <<plugins, pluginsMap>>
    /\ calls' = [calls EXCEPT ![c] = Idle]
    /\ UNCHANGED <<units, nops, budget, initLog, hist>>

\* -------------------------------------------------------------------- init
\* for (const pluginName of sequence) { try { await get(name)!.init() } ... }
\* from position i on: a name the map no longer holds throws a TypeError
\* inside the try and is skipped without suspending.
RunPass(c, rec, i, info) ==
    LET seq == rec.seq
        S == {k \in i..Len(seq) : pluginsMap[seq[k]] # NoUnit}
        j == IF S = {} THEN Len(seq) + 1
             ELSE CHOOSE k \in S : \A m \in S : k <= m
        vis == rec.visited \o [k \in 1..(j - i) |-> NoUnit]
    IN IF j > i /\ ~PassContinues(FALSE) THEN
          /\ calls' = [calls EXCEPT ![c] = Idle]
          /\ last' = [info EXCEPT !.outcome = "rejected", !.error = "type",
                                  !.seq = seq,
                                  !.visited = Append(rec.visited, NoUnit)]
          /\ UNCHANGED initLog
       ELSE IF j > Len(seq) THEN
          /\ calls' = [calls EXCEPT ![c] = Idle]
          /\ last' = [info EXCEPT !.outcome = "resolved", !.seq = seq,
                                  !.visited = vis]
          /\ UNCHANGED initLog
       ELSE
          LET u == pluginsMap[seq[j]]
              rec1 == [rec EXCEPT !.idx = j, !.unit = u, !.name = seq[j],
                                  !.visited = Append(vis, u), !.ok = TRUE]
          IN /\ last' = [info EXCEPT !.outcome = "pending", !.unit = u,
                                     !.name = seq[j]]
             /\ IF UnitInitRuns(units[u]) THEN
                   /\ calls' = [calls EXCEPT ![c] = [rec1 EXCEPT !.pc = "hook"]]
                   /\ initLog' = Append(initLog, u)
                ELSE
                   /\ calls' = [calls EXCEPT ![c] = [rec1 EXCEPT !.pc = "resume"]]
                   /\ UNCHANGED initLog

init ==
    /\ CanCall
    /\ nops' = nops + 1
    /\ UNCHANGED budget
    /\ hist' = IF hist = "regs" /\ plugins # <<>> THEN "pass" ELSE "other"
    /\ LET r == LoadSequence(plugins)
           info == [Blank EXCEPT !.act = "call", !.op = "init"]
       IN IF InitAborts(r.missingTasks) THEN
             /\ last' = [info EXCEPT !.outcome = "rejected", !.error = "missing"]
             /\ UNCHANGED <<calls, initLog>>
          ELSE
             RunPass(FreeSlot,
                     [Idle EXCEPT !.op = "init", !.seq = r.sequence,
                                  !.pobj = PluginObj(plugins),
                                  !.atCall = plugins],
                     1, info)
    /\ UNCHANGED <<units, plugins, pluginsMap>>

\* the init pass resumed after await ...init(): a failure is caught
resumeInit(c) ==
    /\ calls[c].op = "init" /\ calls[c].pc = "resume"
    /\ LET info == [Blank EXCEPT !.act = "resume", !.op = "init"]
       IN IF PassContinues(calls[c].ok) THEN
             RunPass(c, calls[c], calls[c].idx + 1, info)
          ELSE
             /\ calls' = [calls EXCEPT ![c] = Idle]
             /\ last' = [info EXCEPT !.outcome = "rejected", !.error = "hook"]
             /\ UNCHANGED initLog
    /\ UNCHANGED <<units, plugins, pluginsMap, nops, budget, hist>>

\* an init hook invoked by register (autoInit) or by the pass returns/throws
initHookReturn(c, ok) ==
    /\ calls[c].op \in {"register", "init"} /\ calls[c].pc = "hook"
    /\ units' = EndInit(units, calls[c].unit, ok)
    /\ calls' = [calls EXCEPT ![c].pc = "resume", ![c].ok = ok]
    /\ last' = [Blank EXCEPT !.act = "hookReturn", !.op = calls[c].op,
                             !.outcome = "pending", !.unit = calls[c].unit,
                             !.name = calls[c].name]
    /\ UNCHANGED <<plugins, pluginsMap, nops, budget, initLog, hist>>

\* ------------------------------------------------------------------ delete
\* await plugin.destroy() on unit u, by call record rec in slot c
AwaitDestroy(c, rec, u, info) ==
    /\ last' = [info EXCEPT !.outcome = "pending", !.unit = u]
    /\ IF UnitDestroyRuns(units[u]) THEN
          /\ units' = StartDestroy(units, u)
          /\ calls' = [calls EXCEPT ![c] = [rec EXCEPT !.pc = "hook", !.unit = u]]
       ELSE
          /\ calls' = [calls EXCEPT ![c] =
                         [rec EXCEPT !.pc = "resume", !.unit = u, !.ok = TRUE]]
          /\ UNCHANGED units

delete(n) ==
    /\ CanCall
    /\ nops' = nops + 1
    /\ UNCHANGED budget
    /\ hist' = "other"
    /\ LET idx == FindIndex(plugins, n)
           info == [Blank EXCEPT !.act = "call", !.op = "delete", !.name = n,
                                 !.old = pluginsMap[n]]
       IN IF idx = 0 THEN
             /\ last' = [info EXCEPT !.outcome = "resolved", !.ret = FALSE]
             /\ UNCHANGED <<units, calls>>
          ELSE
             AwaitDestroy(FreeSlot,
                          [Idle EXCEPT !.op = "delete", !.name = n, !.idx = idx,
                                       !.got = pluginsMap[n]],
                          plugins[idx], info)
    /\ UNCHANGED <<plugins, pluginsMap, initLog>>

\* delete resumed after await plugin.destroy(): idx is the index found
\* before the await
resumeDelete(c) ==
    /\ calls[c].op = "delete" /\ calls[c].pc = "resume"
    /\ LET n == calls[c].name
           info == [Blank EXCEPT !.act = "resume", !.op = "delete",
                                 !.name = n, !.unit = calls[c].unit,
                                 !.old = calls[c].got]
       IN /\ IF DeleteRemoves(calls[c].ok) THEN
                /\ plugins' = Splice(plugins, calls[c].idx)
                /\ pluginsMap' = MapDelete(pluginsMap, n)
             ELSE
                UNCHANGED <<plugins, pluginsMap>>
          /\ last' = IF calls[c].ok
                     THEN [info EXCEPT !.outcome = "resolved",
                                       !.ret = (pluginsMap[n] # NoUnit)]
                     ELSE [info EXCEPT !.outcome = "rejected",
                                       !.error = "hook"]
    /\ calls' = [calls EXCEPT ![c] = Idle]
    /\ UNCHANGED <<units, nops, budget, initLog, hist>>

\* ------------------------------------------------------ destroy / dispose
\* the array a destroy loop iterates: this.plugins as long as that array
\* object is the manager's, else the array as dispose left it behind
IterArray(rec) == IF rec.live THEN plugins ELSE rec.arr

\* for (const plugin of this.plugins) { await plugin.destroy() }, from
\* position i on; dispose then awaits destroy() before it clears
RunDestroy(c, rec, i, info) ==
    LET arr == IterArray(rec)
    IN IF i > Len(arr) THEN
          /\ IF rec.op = "dispose" THEN
                /\ calls' = [calls EXCEPT ![c] = [rec EXCEPT !.pc = "clear"]]
                /\ last' = [info EXCEPT !.outcome = "pending"]
             ELSE
                /\ calls' = [calls EXCEPT ![c] = Idle]
                /\ last' = [info EXCEPT !.outcome = "resolved",
                                        !.visited = rec.atCall]
          /\ UNCHANGED units
       ELSE
          AwaitDestroy(c, [rec EXCEPT !.idx = i], arr[i], info)

destroy ==
    /\ CanCall
    /\ nops' = nops + 1
    /\ UNCHANGED budget
    /\ hist' = "other"
    /\ RunDestroy(FreeSlot,
                  [Idle EXCEPT !.op = "destroy", !.atCall = plugins], 1,
                  [Blank EXCEPT !.act = "call", !.op = "destroy"])
    /\ UNCHANGED <<plugins, pluginsMap, initLog>>

dispose ==
    /\ CanCall
    /\ nops' = nops + 1
    /\ UNCHANGED budget
    /\ hist' = "other"
    /\ RunDestroy(FreeSlot,
                  [Idle EXCEPT !.op = "dispose", !.atCall = plugins], 1,
                  [Blank EXCEPT !.act = "call", !.op = "dispose"])
    /\ UNCHANGED <<plugins, pluginsMap, initLog>>

\* the destroy loop resumed after await plugin.destroy(): a failure
\* propagates out of destroy(), and out of dispose() before it clears
resumeDestroy(c) ==
    /\ calls[c].op \in {"destroy", "dispose"} /\ calls[c].pc = "resume"
    /\ LET info == [Blank EXCEPT !.act = "resume", !.op = calls[c].op]
       IN IF calls[c].ok THEN
             RunDestroy(c, calls[c], calls[c].idx + 1, info)
          ELSE
             /\ calls' = [calls EXCEPT ![c] = Idle]
             /\ last' = [info EXCEPT !.outcome = "rejected", !.error = "hook",
                                     !.visited = calls[c].atCall]
             /\ UNCHANGED units
    /\ UNCHANGED <<plugins, pluginsMap, nops, budget, initLog, hist>>

\* dispose resumed after await this.destroy():
\* this.plugins = []; this.pluginsMap.clear()
disposeClear(c) ==
    /\ calls[c].op = "dispose" /\ calls[c].pc = "clear"
    /\ plugins' = <<>>
    /\ pluginsMap' = [n \in Names |-> NoUnit]
    /\ calls' = [d \in Slots |->
                   IF d = c THEN Idle
                   ELSE IF calls[d].op \in {"destroy", "dispose"} /\ calls[d].live
                        THEN [calls[d] EXCEPT !.live = FALSE, !.arr = plugins]
                        ELSE calls[d]]
    /\ last' = [Blank EXCEPT !.act = "resume", !.op = "dispose",
                             !.outcome = "resolved",
                             !.visited = calls[c].atCall]
    /\ UNCHANGED <<units, nops, budget, initLog, hist>>

\* a destroy hook invoked by delete, destroy or dispose returns/throws
destroyHookReturn(c, ok) ==
    /\ calls[c].op \in {"delete", "destroy", "dispose"} /\ calls[c].pc = "hook"
    /\ calls' = [calls EXCEPT ![c].pc = "resume", ![c].ok = ok]
    /\ last' = [Blank EXCEPT !.act = "hookReturn", !.op = calls[c].op,
                             !.outcome = "pending", !.unit = calls[c].unit,
                             !.name = calls[c].name]
    /\ UNCHANGED <<units, plugins, pluginsMap, nops, budget, initLog, hist>>

\* ------------------------------------------------------------- setDisabled
\* this.pluginsMap.get(pluginName)?.setDisabled(flag)
setDisabled(n, flag) ==
    /\ CanCall
    /\ nops' = nops + 1
    /\ UNCHANGED budget
    /\ hist' = "other"
    /\ units' = IF pluginsMap[n] # NoUnit
                THEN UnitSetDisabled(units, pluginsMap[n], flag) ELSE units
    /\ last' = [Blank EXCEPT !.act = "call", !.op = "setDisabled", !.name = n,
                             !.outcome = "resolved", !.unit = pluginsMap[n],
                             !.flag = flag]
    /\ UNCHANGED <<plugins, pluginsMap, calls, initLog>>

\* ------------------------------------------------------------ engine-core
\* plugins.register(creator) with no registerOptions
DefaultOptions == [override |-> FALSE, autoInit |-> FALSE]

\* componentMetaParser, setterRegistry, defaultPanelRegistry: a pluginName,
\* no meta
BuiltinCreator(i) ==
    [pluginName |-> BuiltinNames[i], configName |-> NoName, dep |-> <<>>,
     engines |-> NoRange]

\* engine-core.ts evaluated: registerPlugins() has run up to its first
\* await, so the first built-in is registered; engineInited is false
InitEngine ==
    /\ units = <<NewPlugin(BuiltinNames[1], <<>>, NoUnit)>>
    /\ plugins = <<1>>
    /\ pluginsMap =
         [n \in CallNames \cup {BuiltinNames[i] : i \in 1..Len(BuiltinNames)} |->
            IF n = BuiltinNames[1] THEN 1 ELSE NoUnit]
    /\ calls = [c \in Slots |-> Idle]
    /\ last = [Blank EXCEPT !.act = "call", !.op = "register",
                            !.name = BuiltinNames[1], !.unit = 1,
                            !.outcome = "resolved"]
    /\ nops = 1
    /\ budget = [ops |-> MaxOpsEngine, units |-> Len(BuiltinNames) + MaxUnits]
    /\ engine = [EngineIdle EXCEPT !.iife = 1]
    /\ initLog = <<>>
    /\ hist = "regs"

\* registerPlugins resumed after await plugins.register(...): it registers
\* the next built-in; a register that throws ends it (iife = 0)
registerPlugins ==
    /\ engine.iife \in 1..(Len(BuiltinNames) - 1)
    /\ register(BuiltinCreator(engine.iife + 1), DefaultOptions)
    /\ engine' = [engine EXCEPT
                    !.iife = IF last'.outcome = "rejected" THEN 0 ELSE @ + 1]

EngineInitReturns_Never(inited) == FALSE

\* if (engineInited) return;
EngineInitReturns(inited) == inited

\* where the init() call that awaits plugins.init() stands once the step
\* of the pass recorded in info is done
PassPhase(phase, info) ==
    IF phase = "pass" /\ info.op = "init" /\ info.outcome \in {"resolved", "rejected"}
    THEN info.outcome ELSE phase

\* init(container, options, pluginPreference): engineInited = true, then
\* plugins.init(pluginPreference) is called in the same synchronous run
engineInit ==
    /\ engine.returned + engine.passes < MaxEngineInits
    /\ IF EngineInitReturns(engine.inited) THEN
          /\ engine' = [engine EXCEPT !.returned = @ + 1]
          /\ last' = [Blank EXCEPT !.act = "call", !.op = "engineInit",
                                   !.outcome = "resolved"]
          /\ UNCHANGED <<units, plugins, pluginsMap, calls, nops, budget,
                         initLog, hist>>
       ELSE
          /\ init
          /\ engine' = [engine EXCEPT
                          !.inited = TRUE, !.passes = @ + 1,
                          !.seq = LoadSequence(plugins).sequence,
                          !.phase = PassPhase("pass", last')]

\* a step of the init pass, seen from the init() call awaiting it
resumePass(c) ==
    /\ resumeInit(c)
    /\ engine' = [engine EXCEPT !.phase = PassPhase(@, last')]

\* init() resumed after await plugins.init(): render(...) when the pass
\* resolved, and init() rejects when it rejected
resumeEngineInit ==
    /\ engine.phase \in {"resolved", "rejected"}
    /\ engine' = [engine EXCEPT
                    !.phase = IF @ = "resolved" THEN "rendered" ELSE "failed",
                    !.renders = IF engine.phase = "resolved" THEN @ + 1 ELSE @]
    /\ last' = [Blank EXCEPT !.act = "resume", !.op = "engineInit",
                             !.outcome = engine.phase]
    /\ UNCHANGED <<units, plugins, pluginsMap, calls, nops, budget, initLog,
                   hist>>

\* the creators the client of engine-core registers: they declare the
\* first name, with no dependency or with one on a name nobody registers
EngineClientCreators ==
    {cr \in Creators : cr.pluginName = "a" /\ cr.engines = NoRange}

\* engine-core.ts and a client that registers plugins of its own and calls
\* init()
NextEngine ==
    \/ registerPlugins
    \/ engineInit
    \/ \E c \in Slots : resumePass(c)
    \/ resumeEngineInit
    \/ UNCHANGED engine
         /\ \E c \in Slots, ok \in BOOLEAN : initHookReturn(c, ok)
    \/ UNCHANGED engine
         /\ \E cr \in EngineClientCreators : register(cr, DefaultOptions)

SpecEngine == InitEngine /\ [][NextEngine]_vars

\* the manager driven by a client alone: engine-core.ts takes no step
Next ==
    \/ UNCHANGED engine
         /\ \E cr \in Creators, ro \in RegisterOptions : register(cr, ro)
    \/ UNCHANGED engine /\ \E c \in Slots : resumeRegister(c)
    \/ UNCHANGED engine /\ init
    \/ UNCHANGED engine /\ \E c \in Slots : resumeInit(c)
    \/ UNCHANGED engine /\ \E c \in Slots, ok \in BOOLEAN : initHookReturn(c, ok)
    \/ UNCHANGED engine /\ \E n \in CallNames : delete(n)
    \/ UNCHANGED engine /\ \E c \in Slots : resumeDelete(c)
    \/ UNCHANGED engine /\ destroy
    \/ UNCHANGED engine /\ dispose
    \/ UNCHANGED engine /\ \E c \in Slots : resumeDestroy(c)
    \/ UNCHANGED engine /\ \E c \in Slots : disposeClear(c)
    \/ UNCHANGED engine
         /\ \E c \in Slots, ok \in BOOLEAN : destroyHookReturn(c, ok)
    \/ UNCHANGED engine
         /\ \E n \in CallNames, flag \in BOOLEAN : setDisabled(n, flag)

Spec == Init /\ [][Next]_vars

SpecDeep == InitDeep /\ [][Next]_vars

SpecRegistered == InitRegistered /\ [][Next]_vars

\* ------------------------------------------------------------------ claims
AllIdle == \A c \in Slots : calls[c].pc = "idle"
MapSize == Cardinality({n \in Names : pluginsMap[n] # NoUnit})
CallStep == nops' = nops + 1
Declares(u, n) == \E k \in 1..Len(units[u].dep) : units[u].dep[k] = n

\* C1: when an init pass invokes the init hook of a unit B that was
\* registered when the pass started, every name A that B declares as a
\* dependency comes earlier in the pass's sequence, and the init hook of the
\* unit the pass found under A has already ended (A being still registered
\* and not destroyed when the pass reached it).
C1_DependencyInitializedFirst ==
    \A c \in Slots :
      (calls[c].op = "init" /\ calls[c].pc = "hook"
         /\ calls[c].pobj[calls[c].name] = calls[c].unit) =>
        \A k \in 1..Len(units[calls[c].unit].dep) :
          \E i \in 1..(calls[c].idx - 1) :
            /\ calls[c].seq[i] = units[calls[c].unit].dep[k]
            /\ LET v == calls[c].visited[i]
               IN (v # NoUnit /\ ~units[v].destroyed) => units[v].initEnds >= 1

\* B was registered before A, B depends on A, and the pass runs B's hook
\* after A's hook has ended.
C1_Witness ==
    \E c \in Slots :
      /\ calls[c].op = "init" /\ calls[c].pc = "hook" /\ calls[c].idx = 2
      /\ calls[c].pobj[calls[c].name] = calls[c].unit
      /\ units[calls[c].unit].dep # <<>>
      /\ calls[c].visited[1] # NoUnit
      /\ units[calls[c].visited[1]].initEnds = 1
      /\ Declares(calls[c].unit, units[calls[c].visited[1]].name)
      /\ plugins = <<calls[c].unit, calls[c].visited[1]>>

\* C2: after a non-empty sequence of register calls with pairwise distinct
\* names, no dependencies and default options, a following init() invokes
\* the init hooks in registration order, each exactly once, and resolves.
C2_InitInRegistrationOrder ==
    (hist = "pass") =>
      /\ Len(initLog) <= Len(plugins)
      /\ initLog = SubSeq(plugins, 1, Len(initLog))
      /\ AllIdle => (initLog = plugins /\ last.op = "init"
                       /\ last.outcome = "resolved")

C2_Witness ==
    /\ hist = "pass" /\ AllIdle
    /\ Len(plugins) = 2 /\ initLog = plugins

\* C3: an init pass never rejects because a hook threw or rejected, and when
\* it resolves it has gone through its whole sequence: every unit it found
\* (not destroyed) has had its init hook invoked and ended.
C3_HookFailureDoesNotStopPass ==
    /\ ~(last.op = "init" /\ last.error = "hook")
    /\ (last.op = "init" /\ last.outcome = "resolved") =>
         /\ Len(last.visited) = Len(last.seq)
         /\ \A i \in 1..Len(last.visited) :
              LET v == last.visited[i]
              IN (v # NoUnit /\ ~units[v].destroyed) => units[v].initEnds >= 1

\* the first unit's hook failed, the second unit's hook still ran, the pass
\* resolved.
C3_Witness ==
    /\ last.op = "init" /\ last.outcome = "resolved"
    /\ Len(last.visited) = 2
    /\ last.visited[1] # NoUnit /\ last.visited[2] # NoUnit
    /\ ~units[last.visited[1]].initialized
    /\ units[last.visited[1]].initEnds = 1
    /\ units[last.visited[2]].initEnds = 1
    /\ initLog = <<last.visited[1], last.visited[2]>>

\* a unit that init() takes into account declares a dependency on a name no
\* unit of this.plugins has
MissingDependency ==
    \E n \in Names :
      /\ PluginObj(plugins)[n] # NoUnit
      /\ \E m \in Names :
           Declares(PluginObj(plugins)[n], m) /\ PluginObj(plugins)[m] = NoUnit

\* C4: if a registered unit declares a dependency on a name that is not
\* registered, init() rejects and invokes no init hook: no pass is started.
C4_MissingDependencyAborts ==
    [][(CallStep /\ last'.op = "init" /\ MissingDependency) =>
         (last'.outcome = "rejected" /\ last'.error = "missing"
            /\ initLog' = initLog /\ calls' = calls /\ units' = units)]_vars

C4_Witness ==
    /\ last.op = "init" /\ last.error = "missing"
    /\ MissingDependency
    /\ Len(plugins) = 2

\* two registered units depend on each other
CyclicPair ==
    \E n \in Names, m \in Names :
      /\ n # m
      /\ PluginObj(plugins)[n] # NoUnit /\ PluginObj(plugins)[m] # NoUnit
      /\ Declares(PluginObj(plugins)[n], m)
      /\ Declares(PluginObj(plugins)[m], n)

\* C5: when two registered units form a dependency cycle, init() rejects
\* with the missing-dependency failure and invokes neither init hook.
C5_CycleAborts ==
    [][(CallStep /\ last'.op = "init" /\ CyclicPair) =>
         (last'.outcome = "rejected" /\ last'.error = "missing"
            /\ initLog' = initLog /\ calls' = calls)]_vars

C5_Witness ==
    /\ last.op = "init" /\ last.outcome = "rejected"
    /\ CyclicPair
    /\ initLog = <<>>

\* C6: register under a name the map already holds, without override: true,
\* throws the duplicate error and changes neither the registry nor any unit
\* (the original is still what get(name) returns, not destroyed, its
\* initialized and disabled flags as they were).
C6_DuplicateRejectedUnchanged ==
    [][(CallStep /\ last'.op = "register" /\ last'.name \in Names
          /\ pluginsMap[last'.name] # NoUnit /\ ~last'.overriding) =>
         (last'.outcome = "rejected" /\ last'.error = "duplicate"
            /\ pluginsMap' = pluginsMap /\ plugins' = plugins
            /\ units' = units /\ calls' = calls)]_vars

\* the duplicate was refused while the original was initialized
C6_Witness ==
    /\ last.op = "register" /\ last.error = "duplicate"
    /\ pluginsMap[last.name] # NoUnit
    /\ units[pluginsMap[last.name]].initialized
    /\ ~units[pluginsMap[last.name]].destroyed

\* C7: a unit that took the place of another by override: true is in the map
\* only after the unit it replaced was destroyed (destroy hook invoked), and
\* when such a register resolves, get(name) is the new unit.
C7_OverrideDestroysFirst ==
    /\ \A n \in Names :
         (pluginsMap[n] # NoUnit /\ units[pluginsMap[n]].overrode # NoUnit) =>
           /\ units[units[pluginsMap[n]].overrode].destroyed
           /\ units[units[pluginsMap[n]].overrode].destroyCalls >= 1
    /\ (last.op = "register" /\ last.outcome = "resolved" /\ last.overriding) =>
         /\ pluginsMap[last.name] = last.unit
         /\ units[last.unit].overrode = last.old
         /\ units[last.old].destroyCalls >= 1

C7_Witness ==
    /\ last.op = "register" /\ last.outcome = "resolved" /\ last.overriding
    /\ last.old # NoUnit /\ last.old # last.unit
    /\ units[last.old].destroyCalls = 1
    /\ pluginsMap[last.name] = last.unit

\* C8: pluginsMap.size equals plugins.length, and every name of the map is
\* held by the same unit, and only by it, in plugins.
C8_MapMatchesPlugins ==
    /\ MapSize = Len(plugins)
    /\ \A n \in Names :
         pluginsMap[n] # NoUnit =>
           /\ \E i \in 1..Len(plugins) : plugins[i] = pluginsMap[n]
           /\ \A i \in 1..Len(plugins) :
                units[plugins[i]].name = n => plugins[i] = pluginsMap[n]

\* C9: getAll() holds at most one unit per name.
C9_OneUnitPerName ==
    \A i \in 1..Len(plugins), j \in 1..Len(plugins) :
      units[plugins[i]].name = units[plugins[j]].name => i = j

\* C10: a register call that fails with the configuration, duplicate or
\* version error leaves plugins, pluginsMap and every unit as they were.
C10_FailedRegisterChangesNothing ==
    [][(CallStep /\ last'.op = "register" /\ last'.outcome = "rejected"
          /\ last'.error \in {"config", "duplicate", "version"}) =>
         (plugins' = plugins /\ pluginsMap' = pluginsMap /\ units' = units)]_vars

\* C11: a register call whose creator declares an engine version range that
\* the host version does not satisfy fails and installs nothing: no unit is
\* constructed, plugins gains nothing, the map gains no entry, no init hook is
\* invoked and no call is left suspended, whatever registerOptions are given.
C11_VersionMismatchInstallsNothing ==
    [][(CallStep /\ last'.op = "register" /\ last'.unmatched) =>
         (/\ last'.outcome = "rejected"
          /\ Len(units') = Len(units)
          /\ plugins' = plugins
          /\ initLog' = initLog
          /\ calls' = calls
          /\ \A n \in Names : pluginsMap'[n] \in {pluginsMap[n], NoUnit})]_vars

\* the version check itself refused the registration
C11_Witness ==
    /\ last.op = "register" /\ last.unmatched
    /\ last.outcome = "rejected" /\ last.error = "version"
    /\ last.name \in Names /\ pluginsMap[last.name] = NoUnit

\* C12: when dispose() resolves, plugins and the map are empty and every
\* unit that was in plugins when dispose() was called has had its destroy
\* hook invoked, whatever calls came before or ran in between.
C12_DisposeDestroysAll ==
    (last.op = "dispose" /\ last.outcome = "resolved") =>
      /\ plugins = <<>>
      /\ MapSize = 0
      /\ \A i \in 1..Len(last.visited) :
           units[last.visited[i]].destroyCalls >= 1

\* C13: a destroy() or dispose() in which a destroy hook threw or rejected
\* has still invoked the destroy hook of every unit that was in plugins when
\* it was called, and a dispose has still emptied plugins and the map.
C13_DestroyFailureDoesNotBlockTeardown ==
    (last.op \in {"destroy", "dispose"} /\ last.error = "hook") =>
      /\ \A i \in 1..Len(last.visited) :
           units[last.visited[i]].destroyCalls >= 1
      /\ last.op = "dispose" => (plugins = <<>> /\ MapSize = 0)

\* C14: a delete(name) that resolves returns true exactly when get(name)
\* returned a unit at the time of the call; then that unit is the one whose
\* destroy was called, and on return the map has no entry for name and
\* plugins has no unit named name (also after an earlier override of name).
\* A delete(name) that returns false at once has changed nothing.
C14_DeleteRemovesRegisteredUnit ==
    /\ []((last.op = "delete" /\ last.outcome = "resolved") =>
           /\ last.ret = (last.old # NoUnit)
           /\ last.ret =>
                /\ last.unit = last.old
                /\ units[last.old].destroyCalls >= 1
                /\ pluginsMap[last.name] = NoUnit
                /\ \A i \in 1..Len(plugins) :
                     units[plugins[i]].name # last.name)
    /\ [][(CallStep /\ last'.op = "delete" /\ last'.outcome = "resolved") =>
            (~last'.ret /\ units' = units /\ plugins' = plugins
               /\ pluginsMap' = pluginsMap /\ calls' = calls)]_vars

\* the calls suspended inside an init hook
InitHooksRunning ==
    {c \in Slots : calls[c].op \in {"register", "init"} /\ calls[c].pc = "hook"}

\* C15: at most one init hook is in progress in any reachable state, also
\* when register with autoInit or another init() is called while a pass is
\* suspended inside a hook.
C15_OneInitHookAtATime == Cardinality(InitHooksRunning) <= 1

\* C16: the init hook of each unit is invoked at most once.
C16_InitHookAtMostOnce ==
    \A u \in 1..Len(units) :
      Cardinality({i \in 1..Len(initLog) : initLog[i] = u}) <= 1

\* unit id u is in the sequence of unit ids plugs
InPlugins(plugs, u) == \E i \in 1..Len(plugs) : plugs[i] = u

\* C17: destroyed is terminal.  Once a unit is destroyed (by delete, by
\* override, by destroy() or dispose()) no step invokes its init hook, none
\* makes it initialized or not destroyed, and none puts it (back) into
\* plugins or the map.
C17_DestroyedIsTerminal ==
    [][\A u \in 1..Len(units) :
         units[u].destroyed =>
           /\ units'[u].destroyed
           /\ units'[u].initialized = units[u].initialized
           /\ initLog' # initLog => initLog'[Len(initLog')] # u
           /\ InPlugins(plugins', u) => InPlugins(plugins, u)
           /\ \A n \in Names : pluginsMap'[n] = u => pluginsMap[n] = u]_vars

\* an init pass called init() on a destroyed unit that is still registered
\* and was never initialized: the hook was not invoked
C17_Witness ==
    \E c \in Slots :
      /\ calls[c].op = "init" /\ calls[c].pc = "resume"
      /\ units[calls[c].unit].destroyed
      /\ ~units[calls[c].unit].initialized
      /\ ~InPlugins(initLog, calls[c].unit)

\* C18: for a name the map holds, the manager proxy gives undefined exactly
\* while the unit is disabled and the unit's capability proxy otherwise;
\* setDisabled(x, flag) on a registered x changes nothing but that unit's
\* disabled flag (the map, plugins and so has, get and size are as before),
\* and afterwards the proxy gives undefined for flag = true and the unit's
\* proxy for flag = false.
C18_DisabledHidesProxyOnly ==
    /\ [](\A n \in Names :
            pluginsMap[n] # NoUnit =>
              ProxyGet(pluginsMap, units, n) =
                IF units[pluginsMap[n]].disabled THEN Undefined
                ELSE UnitToProxy(pluginsMap[n]))
    /\ [][(CallStep /\ last'.op = "setDisabled"
             /\ pluginsMap[last'.name] # NoUnit) =>
            LET u == pluginsMap[last'.name]
            IN /\ pluginsMap' = pluginsMap /\ plugins' = plugins
               /\ units' = [units EXCEPT ![u].disabled = last'.flag]
               /\ ProxyGet(pluginsMap', units', last'.name) =
                    IF last'.flag THEN Undefined ELSE UnitToProxy(u)]_vars

\* a registered unit was disabled: it is still in the map and in plugins,
\* and the proxy gives undefined for its name
C18_Witness ==
    /\ last.op = "setDisabled" /\ last.flag
    /\ last.unit # NoUnit /\ pluginsMap[last.name] = last.unit
    /\ InPlugins(plugins, last.unit)
    /\ units[last.unit].disabled
    /\ ProxyGet(pluginsMap, units, last.name) = Undefined

\* C19: a register call with autoInit: true that gets as far as constructing
\* its unit invokes that unit's init hook itself, within the call and
\* before the unit is installed, whether or not an init pass is under way;
\* when such a register resolves, the unit is in plugins and in the map
\* under its name, and its init hook has ended and made it initialized.
C19_AutoInitDuringRegister ==
    /\ (last.op = "register" /\ last.act = "call" /\ last.autoInit) =>
         /\ last.outcome = "pending"
         /\ initLog # <<>> /\ initLog[Len(initLog)] = last.unit
         /\ ~InPlugins(plugins, last.unit)
         /\ \E c \in Slots :
              /\ calls[c].op = "register" /\ calls[c].pc = "hook"
              /\ calls[c].unit = last.unit
    /\ (last.op = "register" /\ last.act = "resume"
          /\ last.outcome = "resolved") =>
         /\ last.autoInit
         /\ pluginsMap[last.name] = last.unit
         /\ InPlugins(plugins, last.unit)
         /\ units[last.unit].initialized
         /\ units[last.unit].initEnds = 1

\* an autoInit register resolved while an init pass was suspended in the
\* hook of another unit
C19_Witness ==
    /\ last.op = "register" /\ last.act = "resume" /\ last.autoInit
    /\ last.outcome = "resolved"
    /\ pluginsMap[last.name] = last.unit
    /\ units[last.unit].initialized
    /\ \E c \in Slots :
         /\ calls[c].op = "init" /\ calls[c].pc = "hook"
         /\ calls[c].unit # last.unit

\* C20: the destroy hook of each unit is invoked at most once, whatever
\* calls are made: a unit destroyed by override or delete does not have its
\* hook run again by a later delete, destroy() or dispose().
C20_DestroyHookAtMostOnce ==
    \A u \in 1..Len(units) : units[u].destroyCalls <= 1

\* a delete went through destroy() on a unit that an override had already
\* destroyed: its hook was invoked once, by the override
C20_Witness ==
    /\ last.op = "delete" /\ last.act = "resume" /\ last.outcome = "resolved"
    /\ \E v \in 1..Len(units) : units[v].overrode = last.unit
    /\ units[last.unit].destroyCalls = 1

\* the manager's variables, but for last
ManagerVars == <<units, plugins, pluginsMap, calls, nops, initLog>>

\* C21: engine-core's init() starts the plugin manager's init pass at most
\* once and renders at most once; a call made once engineInited is set
\* returns without starting a pass, rendering or touching the manager,
\* whether the first call is still awaiting its pass, has rendered, or has
\* rejected.
C21_EngineInitOnce ==
    /\ [](/\ engine.passes <= 1 /\ engine.renders <= 1
          /\ engine.inited = (engine.passes = 1))
    /\ [][(engine.inited /\ last'.op = "engineInit" /\ last'.act = "call") =>
            (/\ engine'.returned = engine.returned + 1
             /\ engine'.passes = engine.passes
             /\ engine'.renders = engine.renders
             /\ engine'.phase = engine.phase
             /\ ManagerVars' = ManagerVars)]_vars

\* the first init() rejected (its pass found a missing dependency), and a
\* later init() returned at once
C21_Witness ==
    /\ engine.phase = "failed"
    /\ engine.returned >= 1
    /\ engine.passes = 1 /\ engine.renders = 0
    /\ last.op = "engineInit" /\ last.act = "call"

\* the position of name n in the sequence seq, 0 when absent
PosIn(seq, n) ==
    LET S == {i \in 1..Len(seq) : seq[i] = n}
    IN IF S = {} THEN 0 ELSE CHOOSE i \in S : \A j \in S : i <= j

\* C22: when engine-core's init() starts the init pass, the three built-in
\* plugins are registered, so the sequence of that pass holds them, in the
\* order registerPlugins registers them.
C22_BuiltinsInEnginePass ==
    (engine.passes >= 1) =>
      /\ \A i \in 1..Len(BuiltinNames) : PosIn(engine.seq, BuiltinNames[i]) > 0
      /\ \A i \in 1..(Len(BuiltinNames) - 1) :
           PosIn(engine.seq, BuiltinNames[i]) < PosIn(engine.seq, BuiltinNames[i + 1])

\* C23: an init pass invokes the init hook only of units that were in
\* plugins when the pass started: a unit registered while the pass is
\* suspended in a hook is not initialized by that pass.
C23_PassInitializesUnitsAtStart ==
    \A c \in Slots :
      (calls[c].op = "init" /\ calls[c].pc = "hook") =>
        InPlugins(calls[c].atCall, calls[c].unit)

\* C24: a pass that reaches a name of its sequence that the map no longer
\* holds (its unit was deleted while the pass was suspended) does not
\* reject: it goes through the rest of the sequence and resolves, the units
\* it found having had their init hook invoked and ended; and a pass
\* invokes the init hook only of a unit the map holds and that is not
\* destroyed, so never that of the deleted unit.
C24_DeletedUnitSkipped ==
    /\ []((last.op = "init"
            /\ \E i \in 1..Len(last.visited) : last.visited[i] = NoUnit) =>
           /\ last.outcome = "resolved"
           /\ Len(last.visited) = Len(last.seq)
           /\ \A i \in 1..Len(last.visited) :
                LET v == last.visited[i]
                IN (v # NoUnit /\ ~units[v].destroyed) =>
                     units[v].initEnds >= 1)
    /\ [][(last'.op = "init" /\ Len(initLog') > Len(initLog)) =>
            LET u == initLog'[Len(initLog')]
            IN pluginsMap[units[u].name] = u /\ ~units[u].destroyed]_vars

\* the pass went through a, b, c; b was deleted while the pass was in a's
\* hook: b's hook was never invoked and c was initialized
C24_Witness ==
    /\ last.op = "init" /\ last.outcome = "resolved"
    /\ last.seq = <<"a", "b", "c">>
    /\ last.visited = <<1, NoUnit, 3>>
    /\ units[2].destroyed /\ ~InPlugins(initLog, 2)
    /\ ~InPlugins(plugins, 2) /\ pluginsMap["b"] = NoUnit
    /\ units[3].initialized

\* C25: when register with autoInit rejects because the new unit's init
\* hook threw, the new unit is neither in plugins nor in the map, and a unit
\* the call was to override is still what the map holds under the name and
\* is not destroyed.
C25_AutoInitFailureLeavesRegistry ==
    (last.op = "register" /\ last.act = "resume"
       /\ last.outcome = "rejected") =>
      /\ ~InPlugins(plugins, last.unit)
      /\ pluginsMap[last.name] # last.unit
      /\ last.old # NoUnit =>
           (pluginsMap[last.name] = last.old /\ ~units[last.old].destroyed)

\* C26: a delete that rejects because the unit's destroy hook threw removes
\* nothing: plugins and the map are as they were before it was resumed, so a
\* unit that was in both is still in both, has(name) and size unchanged.
C26_FailedDeleteKeepsUnit ==
    [][(last'.op = "delete" /\ last'.act = "resume"
          /\ last'.outcome = "rejected") =>
         (/\ plugins' = plugins
          /\ pluginsMap' = pluginsMap
          /\ units' = units
          /\ InPlugins(plugins, last'.unit) => InPlugins(plugins', last'.unit)
          /\ MapSize' = MapSize)]_vars

\* delete('a') rejected; the unit is still in plugins and in the map
C26_Witness ==
    /\ last.op = "delete" /\ last.act = "resume" /\ last.outcome = "rejected"
    /\ last.error = "hook"
    /\ InPlugins(plugins, last.unit)
    /\ pluginsMap[last.name] = last.unit
    /\ units[last.unit].destroyCalls = 1

====
